---- MODULE Spec2Model ----
(***************************************************************************)
(* A model of the OOXML patch writer of app_masterfile.py: the range       *)
(* helpers (_col_letter, _col_number, _parse_range, _clamp_coords,         *)
(* _clamp_ref, _clamp_sqref_list, _union_dimension), the sheet and table   *)
(* patchers, the defined-name clamp, the content-types strip, the          *)
(* repackaging loop of fast_patch_template, and the column resolution      *)
(* loop of the main script.                                                *)
(*                                                                         *)
(* Text is modelled as sequences of one-character strings wherever the     *)
(* code inspects characters (column letters, header labels, block values). *)
(* A cell/range reference attribute is a record: k = "range" when          *)
(* RANGE_RE matches it, k = "cell" when only CELL_RE matches it, k =       *)
(* "other" for any other text.  Row numbers are the integers int() reads.  *)
(***************************************************************************)
EXTENDS Integers, Sequences, FiniteSets, TLC

VARIABLES pc, inp, sheet_path, table_paths, table_infos, final_cols,
          new_sheet_xml, last_row, patched_tables, new_workbook_xml, out, res

vars == <<pc, inp, sheet_path, table_paths, table_infos, final_cols,
          new_sheet_xml, last_row, patched_tables, new_workbook_xml, out, res>>

(* The locals of fast_patch_template, for the specifications that do not run it. *)
patch_locals == <<sheet_path, table_paths, table_infos, final_cols,
                  new_sheet_xml, last_row, patched_tables, new_workbook_xml, out>>

None == [k |-> "None"]

Max(a, b) == IF a >= b THEN a ELSE b
Min(a, b) == IF a <= b THEN a ELSE b

(***************************************************************************)
(* Bounds of the model.                                                    *)
(***************************************************************************)
MaxCol == 3
MaxRow == 4
WideCol == 28

(***************************************************************************)
(* Column letters.                                                         *)
(***************************************************************************)
ALPHABET == <<"A","B","C","D","E","F","G","H","I","J","K","L","M",
              "N","O","P","Q","R","S","T","U","V","W","X","Y","Z">>

RADIX == 26

(* ord(ch.upper()) - 64 for a letter ch of A..Z *)
Ord64(ch) == CHOOSE i \in 1..Len(ALPHABET) : ALPHABET[i] = ch

RECURSIVE ColLetterLoop(_, _)
ColLetterLoop(n, s) ==
    IF n = 0 THEN s
    ELSE ColLetterLoop((n - 1) \div RADIX, <<ALPHABET[((n - 1) % RADIX) + 1]>> \o s)

_col_letter(n) == ColLetterLoop(n, <<>>)

RECURSIVE ColNumberLoop(_, _)
ColNumberLoop(letters, n) ==
    IF letters = <<>> THEN n
    ELSE ColNumberLoop(Tail(letters), n * RADIX + Ord64(Head(letters)))

_col_number(letters) == ColNumberLoop(letters, 0)

(***************************************************************************)
(* References.                                                             *)
(***************************************************************************)
RangeRef(c1, r1, c2, r2) == [k |-> "range", c1 |-> c1, r1 |-> r1, c2 |-> c2, r2 |-> r2]
CellRef(c, r) == [k |-> "cell", c1 |-> c, r1 |-> r]
OtherRef(s) == [k |-> "other", s |-> s]
EmptyRef == [k |-> "empty"]
(* text RANGE_RE does not match whose part after the first ":" is a cell    *)
(* CELL_RE matches, such as ":E5", "x:E5" or "A:E5"; left is the part       *)
(* before the colon                                                         *)
ColonRef(left, c, r) == [k |-> "colon", left |-> left, c2 |-> c, r2 |-> r]

(* f"{c1L}{r1N}:{c2L}{r2N}": the text is a two-corner range only when both    *)
(* column parts are non-empty; otherwise it is text RANGE_RE does not match. *)
FormatRange(c1L, r1N, c2L, r2N) ==
    IF c1L # <<>> /\ c2L # <<>> THEN RangeRef(c1L, r1N, c2L, r2N)
    ELSE [k |-> "other", s |-> "degenerate", c1 |-> c1L, r1 |-> r1N, c2 |-> c2L, r2 |-> r2N]

RANGE_RE_match(ref) == ref.k = "range"
CELL_RE_match(ref) == ref.k = "cell"

_parse_range(ref) ==
    IF ~RANGE_RE_match(ref) THEN <<<<"A">>, 1, <<"A">>, 1>>
    ELSE <<ref.c1, ref.r1, ref.c2, ref.r2>>

(* _clamp_coords without the two corner swaps *)
Mut_clamp_coords_noswap(c1, r1, c2, r2, lc, lr) ==
    <<_col_letter(Max(1, Min(_col_number(c1), lc))), Max(1, Min(r1, lr)),
      _col_letter(Max(1, Min(_col_number(c2), lc))), Max(1, Min(r2, lr))>>

_clamp_coords(c1, r1, c2, r2, lc, lr) ==
    LET c1n == Max(1, Min(_col_number(c1), lc))
        c2n == Max(1, Min(_col_number(c2), lc))
        r1c == Max(1, Min(r1, lr))
        r2c == Max(1, Min(r2, lr))
        ca == IF c2n < c1n THEN c2n ELSE c1n
        cb == IF c2n < c1n THEN c1n ELSE c2n
        ra == IF r2c < r1c THEN r2c ELSE r1c
        rb == IF r2c < r1c THEN r1c ELSE r2c
    IN <<_col_letter(ca), ra, _col_letter(cb), rb>>

_clamp_ref(ref, lc, lr) ==
    IF ~RANGE_RE_match(ref) THEN ref
    ELSE LET q == _clamp_coords(ref.c1, ref.r1, ref.c2, ref.r2, lc, lr)
         IN FormatRange(q[1], q[2], q[3], q[4])

(* sqref.split() tokens, clamped one by one and joined again *)
_clamp_sqref_list(sqref, lc, lr) ==
    [i \in 1..Len(sqref) |-> _clamp_ref(sqref[i], lc, lr)]

_union_dimension(orig_dim_ref, used_cols, lr) ==
    LET ref == IF orig_dim_ref.k = "empty" THEN RangeRef(<<"A">>, 1, <<"A">>, 1) ELSE orig_dim_ref
        \* split(":", 1) yields two parts and CELL_RE matches the right one
        hasRight == \/ ref.k \in {"range", "colon"}
                    \/ ref.k = "other" /\ ref.s = "degenerate" /\ ref.c2 # <<>>
        orig_last_col == IF hasRight THEN _col_number(ref.c2) ELSE used_cols
        orig_last_row == IF hasRight THEN ref.r2 ELSE lr
        u_last_col == Max(orig_last_col, used_cols)
        u_last_row == Max(orig_last_row, lr)
    IN FormatRange(<<"A">>, 1, _col_letter(u_last_col), u_last_row)

(***************************************************************************)
(* Inputs of the range helpers.                                            *)
(***************************************************************************)
ColLetters == {_col_letter(n) : n \in (1..MaxCol) \cup {RADIX, RADIX + 1, WideCol}}
RowNumbers == 0..MaxRow
LastCols == (1..MaxCol) \cup {WideCol}
LastRows == 1..MaxRow

RangeRefs == {RangeRef(a, b, c, d) : a \in ColLetters, b \in RowNumbers, c \in ColLetters, d \in RowNumbers}

(***************************************************************************)
(* SpecClamp: the corner clamp applied to one reference.                   *)
(***************************************************************************)
InitClamp ==
    /\ pc = "clamp"
    /\ inp \in [ref : RangeRefs, last_col : LastCols, last_row : LastRows]
    /\ res = None
    /\ sheet_path = None /\ table_paths = None /\ table_infos = None
    /\ final_cols = 0 /\ new_sheet_xml = None /\ last_row = 0
    /\ patched_tables = None /\ new_workbook_xml = None /\ out = None

ClampCoords ==
    /\ pc = "clamp"
    /\ res' = [coords |-> _clamp_coords(inp.ref.c1, inp.ref.r1, inp.ref.c2, inp.ref.r2,
                                        inp.last_col, inp.last_row),
               ref |-> _clamp_ref(inp.ref, inp.last_col, inp.last_row),
               sqref |-> _clamp_sqref_list(<<inp.ref, inp.ref>>, inp.last_col, inp.last_row)]
    /\ pc' = "clamped"
    /\ UNCHANGED <<inp, patch_locals>>

NextClamp == ClampCoords

SpecClamp == InitClamp /\ [][NextClamp]_vars

InBounds(c1, r1, c2, r2, lc, lr) ==
    /\ 1 <= _col_number(c1) /\ _col_number(c1) <= _col_number(c2) /\ _col_number(c2) <= lc
    /\ 1 <= r1 /\ r1 <= r2 /\ r2 <= lr

RefInBounds(ref, lc, lr) ==
    /\ ref.k = "range"
    /\ InBounds(ref.c1, ref.r1, ref.c2, ref.r2, lc, lr)

(* C4: for every two-corner range and every last_col >= 1, last_row >= 1,   *)
(* _clamp_coords, _clamp_ref and every token of _clamp_sqref_list yield a   *)
(* range with all four coordinates inside [1,last_col] x [1,last_row] and   *)
(* start column <= end column, start row <= end row.                        *)
ThmC4_ClampInBoundsOrdered ==
    pc = "clamped" =>
        /\ InBounds(res.coords[1], res.coords[2], res.coords[3], res.coords[4],
                    inp.last_col, inp.last_row)
        /\ RefInBounds(res.ref, inp.last_col, inp.last_row)
        /\ \A i \in 1..Len(res.sqref) : RefInBounds(res.sqref[i], inp.last_col, inp.last_row)

(* a range whose clamped right/bottom corner lies left of/above its clamped *)
(* left/top corner, with a two-letter column involved                       *)
WitC4_SwappedCorners ==
    /\ pc = "clamped"
    /\ Min(_col_number(inp.ref.c2), inp.last_col) < Min(_col_number(inp.ref.c1), inp.last_col)
    /\ Min(inp.ref.r2, inp.last_row) < Min(inp.ref.r1, inp.last_row)
    /\ Len(inp.ref.c1) = 2
    /\ Len(res.ref.c2) = 2

(***************************************************************************)
(* Block values and sanitize_xml_text.  A value is a sequence of           *)
(* characters; CTL is the character U+0001.                                *)
(***************************************************************************)
CTL == "\\x01"
(* [\x00-\x08\x0B\x0C\x0E-\x1F\uD800-\uDFFF]; the surrogates are named by  *)
(* the two ends of their range                                              *)
_INVALID_XML_CHARS ==
    {"U+0000", CTL, "U+0002", "U+0003", "U+0004", "U+0005", "U+0006", "U+0007", "U+0008",
     "U+000B", "\f",
     "U+000E", "U+000F", "U+0010", "U+0011", "U+0012", "U+0013", "U+0014", "U+0015",
     "U+0016", "U+0017", "U+0018", "U+0019", "U+001A", "U+001B", "U+001C", "U+001D",
     "U+001E", "U+001F",
     "U+D800", "U+DFFF"}

sanitize_xml_text(s) == SelectSeq(s, LAMBDA ch : ch \notin _INVALID_XML_CHARS)

(***************************************************************************)
(* The sheet part.  A parsed worksheet is a record                         *)
(*   dimension : None (no element) or the ref attribute                    *)
(*   rows      : the row elements of sheetData, in document order          *)
(*   autoFilter: None or the ref attribute                                 *)
(*   cf        : the sqref of each conditionalFormatting element           *)
(*   dv        : None or the sqref of each dataValidation element          *)
(*   merges    : None or the ref of each mergeCell element                 *)
(* An original row is [tag |-> "orig", rok, r, id]: rok says whether the r *)
(* attribute is present and int() reads it, r is the number read.          *)
(***************************************************************************)
OrigRow(r) == [tag |-> "orig", rok |-> TRUE, r |-> r]
OrigRowNoNumber == [tag |-> "orig", rok |-> FALSE, r |-> 0]

(* int(row.attrib.get("r", "0") or "0"), 0 on any exception *)
RowNumberOf(row) == IF row.rok THEN row.r ELSE 0

(* the cell elements written for block row row_vals at sheet row r *)
NewCells(row_vals, r, used_cols_final) ==
    LET val(j) == IF j <= Len(row_vals) THEN row_vals[j] ELSE <<>>
        all == [j \in 1..Max(0, used_cols_final) |->
                   [r |-> CellRef(_col_letter(j), r), t |-> "inlineStr",
                    text |-> sanitize_xml_text(val(j)), skip |-> val(j) = <<>>]]
    IN SelectSeq(all, LAMBDA c : ~c.skip /\ c.text # <<>>)

NewRow(row_vals, r, used_cols_final) ==
    LET nc == NewCells(row_vals, r, used_cols_final)
    IN [tag |-> "new", rok |-> TRUE, r |-> r,
        spans |-> IF used_cols_final > 0 THEN <<1, used_cols_final>> ELSE <<1, 1>>,
        cells |-> [j \in 1..Len(nc) |-> [r |-> nc[j].r, t |-> "inlineStr", text |-> nc[j].text]]]

(* the loop over enumerate(block_2d) with every row element appended *)
RECURSIVE Mut_AppendBlockRows_all(_, _, _, _, _)
Mut_AppendBlockRows_all(rows, block_2d, i, start_row, used_cols_final) ==
    IF i > Len(block_2d) THEN rows
    ELSE Mut_AppendBlockRows_all(
             Append(rows, NewRow(block_2d[i], start_row + (i - 1), used_cols_final)),
             block_2d, i + 1, start_row, used_cols_final)

(* the loop over enumerate(block_2d): a row element is appended only when   *)
(* the row produced at least one cell (any_val)                             *)
RECURSIVE AppendBlockRows(_, _, _, _, _)
AppendBlockRows(rows, block_2d, i, start_row, used_cols_final) ==
    IF i > Len(block_2d) THEN rows
    ELSE LET row_el == NewRow(block_2d[i], start_row + (i - 1), used_cols_final)
             any_val == row_el.cells # <<>>
         IN AppendBlockRows(IF any_val THEN Append(rows, row_el) ELSE rows,
                            block_2d, i + 1, start_row, used_cols_final)

(* last_row without the floor of the row count at one row *)
Mut_LastRowOf_nofloor(header_row, start_row, block_2d) ==
    Max(header_row, start_row + Len(block_2d) - 1)

(* last_row of _patch_sheet_xml and of fast_patch_template *)
LastRowOf(header_row, start_row, block_2d) ==
    Max(header_row, start_row + Max(0, Len(block_2d) - 1))

ClampAttr(ref, lc, lr) == IF ref.k \in {"None", "empty"} THEN ref ELSE _clamp_ref(ref, lc, lr)

_patch_sheet_xml(sheet, header_row, start_row, used_cols_final, block_2d) ==
    LET kept == SelectSeq(sheet.rows, LAMBDA row : ~(RowNumberOf(row) >= start_row))
        rows == AppendBlockRows(kept, block_2d, 1, start_row, used_cols_final)
        lr == LastRowOf(header_row, start_row, block_2d)
        last_col_num == Max(1, used_cols_final)
        dim0 == IF sheet.dimension.k = "None" THEN RangeRef(<<"A">>, 1, <<"A">>, 1)
                ELSE sheet.dimension
    IN [dimension |-> _union_dimension(dim0, last_col_num, lr),
        rows |-> rows,
        autoFilter |-> ClampAttr(sheet.autoFilter, last_col_num, lr),
        cf |-> [i \in 1..Len(sheet.cf) |-> _clamp_sqref_list(sheet.cf[i], last_col_num, lr)],
        dv |-> IF sheet.dv.k = "None" THEN sheet.dv
               ELSE [k |-> "dvs",
                     list |-> [i \in 1..Len(sheet.dv.list) |->
                                  _clamp_sqref_list(sheet.dv.list[i], last_col_num, lr)]],
        merges |-> IF sheet.merges.k = "None" THEN sheet.merges
                   ELSE [k |-> "merges",
                         list |-> [i \in 1..Len(sheet.merges.list) |->
                                      _clamp_ref(sheet.merges.list[i], last_col_num, lr)]]]

(***************************************************************************)
(* Text helpers: str.lower() and str.strip() on character sequences.       *)
(***************************************************************************)
LOWERCASE == <<"a","b","c","d","e","f","g","h","i","j","k","l","m",
               "n","o","p","q","r","s","t","u","v","w","x","y","z">>

IsUpper(ch) == \E i \in 1..Len(ALPHABET) : ALPHABET[i] = ch
IsLower(ch) == \E i \in 1..Len(LOWERCASE) : LOWERCASE[i] = ch
LowerChar(ch) == IF IsUpper(ch) THEN LOWERCASE[Ord64(ch)] ELSE ch
Lower(s) == [i \in 1..Len(s) |-> LowerChar(s[i])]

(* the characters str.strip() removes and \s matches: str.isspace().  The  *)
(* ones with no escape are written as their code point.                    *)
WHITESPACE ==
    {" ", "\t", "\n", "\r", "\f", "U+000B", "U+001C", "U+001D", "U+001E", "U+001F",
     "U+0085", "U+00A0", "U+1680", "U+2000", "U+2001", "U+2002", "U+2003", "U+2004",
     "U+2005", "U+2006", "U+2007", "U+2008", "U+2009", "U+200A", "U+2028", "U+2029",
     "U+202F", "U+205F", "U+3000"}

IsSpace(ch) == ch \in WHITESPACE

RECURSIVE LStrip(_)
LStrip(s) == IF s # <<>> /\ IsSpace(Head(s)) THEN LStrip(Tail(s)) ELSE s
RECURSIVE RStrip(_)
RStrip(s) == IF s # <<>> /\ IsSpace(s[Len(s)]) THEN RStrip(SubSeq(s, 1, Len(s) - 1)) ELSE s
Strip(s) == RStrip(LStrip(s))

RECURSIVE Flatten(_)
Flatten(ss) == IF ss = <<>> THEN <<>> ELSE Head(ss) \o Flatten(Tail(ss))

(***************************************************************************)
(* Defined names.  The text of a definedName is a sequence of atoms:       *)
(*   [k |-> "txt", s]  a run of characters other than ' ! $                *)
(*   [k |-> "q"]       the character '                                     *)
(*   [k |-> "bang"]    the character !                                     *)
(*   [k |-> "a1", c1, r1, c2, r2]   $C$R:$C$R                              *)
(*   [k |-> "col", c1, c2]          $C:$C   (no digit follows)             *)
(*   [k |-> "row", r1, r2]          $R:$R   (no letter follows)            *)
(* SHEET_A1_RE, SHEET_COL_ONLY_RE and SHEET_ROW_ONLY_RE match a sheet      *)
(* group ('[^']+' or [^'!]+), then !, then one reference atom.             *)
(***************************************************************************)
Txt(s) == [k |-> "txt", s |-> s]
Quote == [k |-> "q"]
Bang == [k |-> "bang"]
A1Atom(c1, r1, c2, r2) == [k |-> "a1", c1 |-> c1, r1 |-> r1, c2 |-> c2, r2 |-> r2]
ColAtom(c1, c2) == [k |-> "col", c1 |-> c1, c2 |-> c2]
RowAtom(r1, r2) == [k |-> "row", r1 |-> r1, r2 |-> r2]

AtomText(a) ==
    CASE a.k = "txt" -> a.s
      [] a.k = "q" -> <<"'">>
      [] a.k = "bang" -> <<"!">>
      [] a.k = "a1" -> <<"$">> \o a.c1 \o <<"$", ToString(a.r1), ":", "$">> \o a.c2 \o <<"$", ToString(a.r2)>>
      [] a.k = "col" -> <<"$">> \o a.c1 \o <<":", "$">> \o a.c2
      [] a.k = "row" -> <<"$", ToString(a.r1), ":", "$", ToString(a.r2)>>

GroupText(atoms) == Flatten([i \in 1..Len(atoms) |-> AtomText(atoms[i])])

_norm_sheet_name(n) ==
    LET t == Strip(n)
    IN IF t # <<>> /\ Head(t) = "'" /\ t[Len(t)] = "'" THEN SubSeq(t, 2, Len(t) - 1) ELSE t

(* the first index j >= s with text[j] a quote (or, with bangToo, a bang); 0 if none *)
RECURSIVE NextStop(_, _, _)
NextStop(text, s, bangToo) ==
    IF s > Len(text) THEN 0
    ELSE IF text[s].k = "q" \/ (bangToo /\ text[s].k = "bang") THEN s
    ELSE NextStop(text, s + 1, bangToo)

(* the index of the last atom of a match of the pattern for reference kind  *)
(* `kind` that starts at atom s; 0 when none starts there                   *)
MatchEnd(text, s, kind) ==
    IF text[s].k = "q"
    THEN LET e == NextStop(text, s + 1, FALSE)
         IN IF e > s + 1 /\ e + 2 <= Len(text) /\ text[e + 1].k = "bang" /\ text[e + 2].k = kind
            THEN e + 2 ELSE 0
    ELSE IF text[s].k = "bang" THEN 0
    ELSE LET j == NextStop(text, s, TRUE)
         IN IF j > 0 /\ text[j].k = "bang" /\ j + 1 <= Len(text) /\ text[j + 1].k = kind
            THEN j + 1 ELSE 0

(* repl_a1 / repl_col / repl_row applied to the reference atom of a match *)
ClampAtom(a, lc, lr) ==
    CASE a.k = "a1" ->
            LET q == _clamp_coords(a.c1, a.r1, a.c2, a.r2, lc, lr)
            IN A1Atom(q[1], q[2], q[3], q[4])
      [] a.k = "col" ->
            LET c1n == Max(1, Min(_col_number(a.c1), lc))
                c2n == Max(1, Min(_col_number(a.c2), lc))
            IN IF c2n < c1n THEN ColAtom(_col_letter(c2n), _col_letter(c1n))
               ELSE ColAtom(_col_letter(c1n), _col_letter(c2n))
      [] a.k = "row" ->
            LET r1c == Max(1, Min(a.r1, lr))
                r2c == Max(1, Min(a.r2, lr))
            IN IF r2c < r1c THEN RowAtom(r2c, r1c) ELSE RowAtom(r1c, r2c)

(* the replacement of the match text[s..e] *)
Repl(text, s, e, sheet_name, lc, lr) ==
    LET group == SubSeq(text, s, e - 2)
        sname == _norm_sheet_name(GroupText(group))
    IN IF Lower(sname) # Lower(sheet_name) THEN SubSeq(text, s, e)
       ELSE group \o <<Bang, ClampAtom(text[e], lc, lr)>>

(* pattern.sub(repl, text): leftmost non-overlapping matches, left to right *)
RECURSIVE SubFrom(_, _, _, _, _, _)
SubFrom(text, s, kind, sheet_name, lc, lr) ==
    IF s > Len(text) THEN <<>>
    ELSE LET e == MatchEnd(text, s, kind)
         IN IF e = 0 THEN <<text[s]>> \o SubFrom(text, s + 1, kind, sheet_name, lc, lr)
            ELSE Repl(text, s, e, sheet_name, lc, lr) \o SubFrom(text, e + 1, kind, sheet_name, lc, lr)

clamp_text(text, sheet_name, lc, lr) ==
    LET t1 == SubFrom(text, 1, "a1", sheet_name, lc, lr)
        t2 == SubFrom(t1, 1, "col", sheet_name, lc, lr)
    IN SubFrom(t2, 1, "row", sheet_name, lc, lr)

(***************************************************************************)
(* The package.  An archive is a function from member names to parts; a    *)
(* member name and a relationship target are sequences of path segments.   *)
(* A part is [kind |-> "xml", ser, doc] when ET.fromstring parses it (ser  *)
(* tells the input bytes, "orig", from the bytes ET.tostring writes,       *)
(* "et"), and [kind |-> "bad", ser, id] when it does not.                  *)
(***************************************************************************)
CONTENT_TYPES == <<"[Content_Types].xml">>
WORKBOOK_XML == <<"xl", "workbook.xml">>
WORKBOOK_RELS == <<"xl", "_rels", "workbook.xml.rels">>
CALCCHAIN_XML == <<"xl", "calcChain.xml">>
CALCCHAIN_PARTNAME == "/xl/calcChain.xml"

Xml(doc) == [kind |-> "xml", ser |-> "orig", doc |-> doc]
Bad(id) == [kind |-> "bad", ser |-> "orig", id |-> id]
ET_tostring(doc) == [kind |-> "xml", ser |-> "et", doc |-> doc]

(* z.read(name) followed by ET.fromstring succeeds *)
Parses(z, name) == name \in DOMAIN z /\ z[name].kind = "xml"

(* target.replace("\\", "/"), strip a leading "../", prefix "xl/"; the empty  *)
(* target <<>> becomes "xl/", the segment xl followed by an empty segment   *)
NormTarget(target) ==
    LET t1 == IF Len(target) > 1 /\ Head(target) = ".." THEN Tail(target) ELSE target
    IN IF Len(t1) > 1 /\ Head(t1) = "xl" THEN t1
       ELSE IF t1 = <<>> THEN <<"xl", "">>
       ELSE <<"xl">> \o t1

(* the first element of seq satisfying Test, as <<element>>; <<>> when none *)
First(seq, Test(_)) ==
    LET hits == SelectSeq(seq, Test) IN IF hits = <<>> THEN <<>> ELSE <<Head(hits)>>

(* _find_sheet_part_path falling back to the first worksheet instead of raising *)
Mut_find_sheet_part_path_default(z, sheet_name) ==
    [ok |-> TRUE, path |-> <<"xl", "worksheets", "sheet1.xml">>]

(* [ok |-> TRUE, path] or [ok |-> FALSE, err] when it raises *)
_find_sheet_part_path(z, sheet_name) ==
    IF ~Parses(z, WORKBOOK_XML) \/ ~Parses(z, WORKBOOK_RELS)
    THEN [ok |-> FALSE, err |-> "parts"]
    ELSE LET sh == First(z[WORKBOOK_XML].doc.sheets, LAMBDA x : x.name = sheet_name)
             rid == IF sh = <<>> THEN "" ELSE sh[1].rid
             rel == First(z[WORKBOOK_RELS].doc.rels, LAMBDA x : x.Id = rid)
             target == IF rel = <<>> THEN <<>> ELSE rel[1].Target
         IN IF rid = "" THEN [ok |-> FALSE, err |-> "Sheet not found in workbook.xml"]
            ELSE IF target = <<>> THEN [ok |-> FALSE, err |-> "Relationship for sheet not found."]
            ELSE [ok |-> TRUE, path |-> NormTarget(target)]

(* sheet_path.replace("worksheets/", "worksheets/_rels/").replace(".xml", ".xml.rels") *)
(* str.replace(old, new) on one path segment, scanning from position i *)
RECURSIVE StrReplaceFrom(_, _, _, _)
StrReplaceFrom(seg, i, old, new) ==
    IF i > Len(seg) THEN ""
    ELSE IF i + Len(old) - 1 <= Len(seg) /\ SubSeq(seg, i, i + Len(old) - 1) = old
         THEN new \o StrReplaceFrom(seg, i + Len(old), old, new)
         ELSE SubSeq(seg, i, i) \o StrReplaceFrom(seg, i + 1, old, new)

EndsWith(seg, suffix) ==
    Len(seg) >= Len(suffix) /\ SubSeq(seg, Len(seg) - Len(suffix) + 1, Len(seg)) = suffix

(* every "worksheets/" gains "_rels/": a segment ending in worksheets that  *)
(* a "/" follows; then every ".xml" becomes ".xml.rels"                     *)
RelsPathOf(sp) ==
    Flatten([i \in 1..Len(sp) |->
        IF i < Len(sp) /\ EndsWith(sp[i], "worksheets")
        THEN <<StrReplaceFrom(sp[i], 1, ".xml", ".xml.rels"), "_rels">>
        ELSE <<StrReplaceFrom(sp[i], 1, ".xml", ".xml.rels")>>])

(* [ok |-> TRUE, paths] or [ok |-> FALSE] when the rels part does not parse *)
_get_table_paths_for_sheet(z, sp) ==
    LET rels_path == RelsPathOf(sp)
    IN IF rels_path \notin DOMAIN z THEN [ok |-> TRUE, paths |-> <<>>]
       ELSE IF z[rels_path].kind # "xml" THEN [ok |-> FALSE, err |-> "rels"]
       ELSE LET tables == SelectSeq(z[rels_path].doc.rels, LAMBDA x : x.Type = "table")
            IN [ok |-> TRUE, paths |-> [i \in 1..Len(tables) |-> NormTarget(tables[i].Target)]]

(* A parsed table is [ref, tableColumns, autoFilter]: tableColumns is None  *)
(* or [k |-> "cols", list]; ref is EmptyRef when the attribute is absent.   *)
_read_table_info(table) ==
    LET ref == IF table.ref.k = "empty" THEN RangeRef(<<"A">>, 1, <<"A">>, 1) ELSE table.ref
        q == _parse_range(ref)
        width == IF table.tableColumns.k # "None" THEN Len(table.tableColumns.list)
                 ELSE _col_number(q[3]) - _col_number(q[1]) + 1
    IN [sc |-> q[1], sr |-> q[2], width |-> width]

(* the loop over table_paths with final_cols = min(final_cols, width) replaced *)
(* by final_cols = width                                                     *)
RECURSIVE Mut_ReadTablesLoop_last(_, _, _, _, _)
Mut_ReadTablesLoop_last(z, tps, i, infos, fc) ==
    IF i > Len(tps) THEN <<infos, fc>>
    ELSE IF ~Parses(z, tps[i]) THEN Mut_ReadTablesLoop_last(z, tps, i + 1, infos, fc)
    ELSE LET t == _read_table_info(z[tps[i]].doc)
         IN Mut_ReadTablesLoop_last(z, tps, i + 1,
                           Append(infos, [tp |-> tps[i], sc |-> t.sc, sr |-> t.sr, width |-> t.width]),
                           t.width)

(* the loop over table_paths: <<table_infos, final_cols>> *)
RECURSIVE ReadTablesLoop(_, _, _, _, _)
ReadTablesLoop(z, tps, i, infos, fc) ==
    IF i > Len(tps) THEN <<infos, fc>>
    ELSE IF ~Parses(z, tps[i]) THEN ReadTablesLoop(z, tps, i + 1, infos, fc)
    ELSE LET t == _read_table_info(z[tps[i]].doc)
         IN ReadTablesLoop(z, tps, i + 1,
                           Append(infos, [tp |-> tps[i], sc |-> t.sc, sr |-> t.sr, width |-> t.width]),
                           Min(fc, t.width))

(* _patch_table_xml with the last column taken as the width, not start + width - 1 *)
Mut_patch_table_xml_from_A(table, header_row, lr, start_col_letter, width_cols) ==
    LET new_ref == FormatRange(start_col_letter, header_row, _col_letter(width_cols), lr)
    IN [table EXCEPT !.ref = new_ref, !.autoFilter = new_ref]

_patch_table_xml(table, header_row, lr, start_col_letter, width_cols) ==
    LET last_col_letter == _col_letter(_col_number(start_col_letter) + width_cols - 1)
        new_ref == FormatRange(start_col_letter, header_row, last_col_letter, lr)
    IN [table EXCEPT !.ref = new_ref, !.autoFilter = new_ref]

(* the loop over table_infos: the dict patched_tables *)
RECURSIVE PatchTablesLoop(_, _, _, _, _, _)
PatchTablesLoop(z, infos, i, header_row, lr, patched) ==
    IF i > Len(infos) THEN patched
    ELSE LET ti == infos[i]
             new == ET_tostring(_patch_table_xml(z[ti.tp].doc, header_row, lr, ti.sc, ti.width))
         IN PatchTablesLoop(z, infos, i + 1, header_row, lr,
                            [n \in DOMAIN patched \cup {ti.tp} |-> IF n = ti.tp THEN new ELSE patched[n]])

(* A parsed workbook is [sheets, definedNames]: definedNames is None or     *)
(* [k |-> "names", list], each entry the text of one definedName.           *)
_clamp_defined_names(workbook, sheet_name, lc, lr) ==
    IF workbook.kind # "xml" THEN workbook
    ELSE IF workbook.doc.definedNames.k = "None" THEN workbook
    ELSE ET_tostring([workbook.doc EXCEPT !.definedNames.list =
             [i \in 1..Len(workbook.doc.definedNames.list) |->
                 clamp_text(workbook.doc.definedNames.list[i], sheet_name, lc, lr)]])

(* A parsed content-types document is the sequence of its child elements,   *)
(* each [tag, PartName].                                                    *)
(* the strip removing only the first matching Override *)
Mut_strip_calcchain_first_only(ct) ==
    IF ct.kind # "xml" THEN ct
    ELSE LET hit(i) == ct.doc.children[i].tag = "Override"
                       /\ ct.doc.children[i].PartName = CALCCHAIN_PARTNAME
             firstHit(i) == hit(i) /\ \A j \in 1..(i - 1) : ~hit(j)
             idx == [i \in 1..Len(ct.doc.children) |-> i]
             keep == SelectSeq(idx, LAMBDA i : ~firstHit(i))
         IN ET_tostring([ct.doc EXCEPT !.children =
                [i \in 1..Len(keep) |-> ct.doc.children[keep[i]]]])

_strip_calcchain_from_content_types(ct) ==
    IF ct.kind # "xml" THEN ct
    ELSE ET_tostring([ct.doc EXCEPT !.children =
             SelectSeq(ct.doc.children,
                       LAMBDA c : ~(c.tag = "Override" /\ c.PartName = CALCCHAIN_PARTNAME))])

(* the repack loop writing every XML part back through ET.tostring *)
Mut_Repack_reserialize(z, sp, new_sheet, patched, new_workbook) ==
    [n \in DOMAIN z \ {CALCCHAIN_XML} |->
        IF n = sp THEN new_sheet
        ELSE IF n \in DOMAIN patched THEN patched[n]
        ELSE IF n = WORKBOOK_XML THEN new_workbook
        ELSE IF n = CONTENT_TYPES THEN _strip_calcchain_from_content_types(z[n])
        ELSE IF z[n].kind = "xml" THEN ET_tostring(z[n].doc)
        ELSE z[n]]

(* the repack loop over zin.infolist() *)
Repack(z, sp, new_sheet, patched, new_workbook) ==
    [n \in DOMAIN z \ {CALCCHAIN_XML} |->
        IF n = sp THEN new_sheet
        ELSE IF n \in DOMAIN patched THEN patched[n]
        ELSE IF n = WORKBOOK_XML THEN new_workbook
        ELSE IF n = CONTENT_TYPES THEN _strip_calcchain_from_content_types(z[n])
        ELSE z[n]]

(***************************************************************************)
(* Inputs of _patch_sheet_xml.                                             *)
(***************************************************************************)
MaxHeaderRow == 2
MaxBlockRows == 2
MaxOrigRow == 4

RECURSIVE SortedSeq(_)
SortedSeq(S) ==
    IF S = {} THEN <<>>
    ELSE LET m == CHOOSE x \in S : \A y \in S : x <= y
         IN <<m>> \o SortedSeq(S \ {m})

Values == {<<>>, <<"x">>, <<CTL, "\f">>}

(* block rows of width w: uniform rows, and rows with one value at either end *)
BlockRowSamples(w) ==
    {[j \in 1..w |-> v] : v \in Values}
    \cup {[j \in 1..w |-> IF j = k THEN <<"x">> ELSE <<>>] : k \in {1, w}}

SeqsUpTo(S, n) == UNION {[1..m -> S] : m \in 0..n}

BlockSamples(w) == SeqsUpTo(BlockRowSamples(w), MaxBlockRows)

(* a block of n rows of width w, every value non-empty *)
FullBlock(n, w) == [i \in 1..n |-> [j \in 1..w |-> <<"x">>]]

HeaderStartRows ==
    {<<h, s>> \in (1..MaxHeaderRow) \X (1..(MaxHeaderRow + 2)) : h < s /\ s <= h + 2}

OrigRowSeqs ==
    {[i \in 1..Len(SortedSeq(S)) |-> OrigRow(SortedSeq(S)[i])] : S \in SUBSET (1..MaxOrigRow)}
    \cup {<<OrigRow(1), OrigRowNoNumber, OrigRow(MaxOrigRow)>>}

WellFormedRanges ==
    {r \in {RangeRef(a, b, c, d) : a \in {<<"A">>, <<"B">>}, b \in 1..2,
                                   c \in ColLetters, d \in 1..(MaxRow + 2)} :
        _col_number(r.c1) <= _col_number(r.c2) /\ r.r1 <= r.r2}

SingleCells == {CellRef(c, r) : c \in ColLetters, r \in 1..(MaxRow + 2)}

ColonRefs == {ColonRef(l, c, r) : l \in {"", "x", "A"}, c \in ColLetters, r \in {1, MaxRow + 2}}

DimSamples ==
    {None, EmptyRef, OtherRef("A:B")} \cup WellFormedRanges \cup SingleCells \cup ColonRefs

PlainSheet == [dimension |-> RangeRef(<<"A">>, 1, <<"C">>, 3), rows |-> <<OrigRow(1), OrigRow(2)>>,
               autoFilter |-> None, cf |-> <<>>, dv |-> None, merges |-> None]

RefSamples ==
    {RangeRef(<<"A">>, 1, <<"B">>, 2), RangeRef(<<"B">>, 2, <<"A","B">>, MaxRow + 2),
     RangeRef(<<"A","A">>, MaxRow + 1, <<"A","B">>, MaxRow + 2),
     CellRef(<<"A">>, 1), CellRef(<<"A","B">>, MaxRow + 2)}

SheetsDim == {[PlainSheet EXCEPT !.dimension = d] : d \in DimSamples}
SheetsRows == {[PlainSheet EXCEPT !.rows = rs] : rs \in OrigRowSeqs}
SheetsAux ==
    {[PlainSheet EXCEPT !.autoFilter = af, !.cf = <<<<a, b>>>>,
                        !.dv = [k |-> "dvs", list |-> <<<<b>>, <<a>>>>],
                        !.merges = [k |-> "merges", list |-> <<a, b>>]] :
        af \in {None, EmptyRef} \cup RefSamples, a \in RefSamples, b \in RefSamples}

(* a row beyond every bound the patch can compute *)
FarRow == MaxHeaderRow + MaxBlockRows + 3

(* merged ranges: one in the header rows, two stacked below every bound,   *)
(* one to the right of every bound                                          *)
MergeSamples ==
    {RangeRef(<<"A">>, 1, <<"B">>, 1),
     RangeRef(<<"A">>, FarRow, <<"B">>, FarRow + 1),
     RangeRef(<<"A">>, FarRow + 2, <<"B">>, FarRow + 3),
     RangeRef(_col_letter(WideCol + 1), 1, _col_letter(WideCol + 2), 2)}

SheetsMerges ==
    {[PlainSheet EXCEPT !.merges = [k |-> "merges", list |-> <<a, b>>]] :
        a \in MergeSamples, b \in MergeSamples}

(***************************************************************************)
(* SpecSheet: _patch_sheet_xml applied to one parsed sheet.                *)
(***************************************************************************)
InitSheet ==
    /\ pc = "sheet"
    /\ \/ \E sh \in SheetsDim \cup SheetsAux \cup SheetsMerges, hs \in HeaderStartRows, w \in LastCols, n \in 0..MaxBlockRows :
              inp = [sheet |-> sh, header_row |-> hs[1], start_row |-> hs[2],
                     used_cols_final |-> w, block_2d |-> FullBlock(n, w)]
       \/ \E sh \in SheetsRows, hs \in HeaderStartRows, w \in 1..MaxCol :
              \E b \in BlockSamples(w) :
                  inp = [sheet |-> sh, header_row |-> hs[1], start_row |-> hs[2],
                         used_cols_final |-> w, block_2d |-> b]
    /\ res = None
    /\ sheet_path = None /\ table_paths = None /\ table_infos = None
    /\ final_cols = 0 /\ new_sheet_xml = None /\ last_row = 0
    /\ patched_tables = None /\ new_workbook_xml = None /\ out = None

PatchSheetXml ==
    /\ pc = "sheet"
    /\ res' = _patch_sheet_xml(inp.sheet, inp.header_row, inp.start_row,
                               inp.used_cols_final, inp.block_2d)
    /\ pc' = "sheet_patched"
    /\ UNCHANGED <<inp, patch_locals>>

NextSheet == PatchSheetXml

SpecSheet == InitSheet /\ [][NextSheet]_vars

(***************************************************************************)
(* Inputs of fast_patch_template.                                          *)
(***************************************************************************)
SHEET1 == <<"xl", "worksheets", "sheet1.xml">>
SHEET2 == <<"xl", "worksheets", "sheet2.xml">>
SHEET1_RELS == <<"xl", "worksheets", "_rels", "sheet1.xml.rels">>
TABLE1 == <<"xl", "tables", "table1.xml">>
TABLE2 == <<"xl", "tables", "table2.xml">>
TABLE3 == <<"xl", "tables", "table3.xml">>
VBA_BIN == <<"xl", "vbaProject.bin">>

Template == <<"T","e","m","p","l","a","t","e">>
TEMPLATE_UPPER == <<"T","E","M","P","L","A","T","E">>
Other == <<"O","t","h","e","r">>

Rel(id, type, target) == [Id |-> id, Type |-> type, Target |-> target]
RelsDoc(rels) == [rels |-> rels]

WbSheetsSamples ==
    {<<[name |-> Template, rid |-> "rId1"]>>,
     <<[name |-> Other, rid |-> "rId2"], [name |-> Template, rid |-> "rId1"]>>,
     <<[name |-> Other, rid |-> "rId2"]>>,
     <<[name |-> Template, rid |-> ""]>>,
     <<[name |-> TEMPLATE_UPPER, rid |-> "rId1"]>>}

WbRelsSamples ==
    {<<Rel("rId1", "worksheet", <<"worksheets", "sheet1.xml">>),
       Rel("rId2", "worksheet", <<"worksheets", "sheet2.xml">>)>>,
     <<Rel("rId2", "worksheet", <<"worksheets", "sheet2.xml">>)>>,
     <<Rel("rId1", "worksheet", <<>>)>>,
     <<Rel("rId1", "worksheet", <<"", "xl", "worksheets", "sheet1.xml">>)>>,
     <<Rel("rId1", "worksheet", <<"xl", "worksheets", "sheet1.xml">>)>>,
     <<Rel("rId1", "worksheet", <<"..", "worksheets", "sheet1.xml">>)>>,
     <<Rel("rId1", "worksheet", <<"worksheets", "sheet9.xml">>)>>}

Override(pn) == [tag |-> "Override", PartName |-> pn]
Default(ext) == [tag |-> "Default", PartName |-> "", Extension |-> ext]

ContentTypesSamples ==
    {Xml([children |-> <<Default("xml"), Override("/xl/workbook.xml"), Override(CALCCHAIN_PARTNAME)>>]),
     Xml([children |-> <<Default("xml"), Override("/xl/workbook.xml")>>]),
     Xml([children |-> <<Override(CALCCHAIN_PARTNAME), Default("xml"), Override(CALCCHAIN_PARTNAME)>>]),
     Bad("content-types")}

NameTextSamples ==
    {<<Txt(Template), Bang, A1Atom(<<"A">>, 1, <<"A","B">>, MaxRow + 2)>>,
     <<Quote, Txt(Template), Quote, Bang, ColAtom(<<"A","B">>, <<"A">>)>>,
     <<Txt(Other), Bang, A1Atom(<<"A">>, 1, <<"A","B">>, MaxRow + 2)>>,
     <<Txt(Lower(Template)), Bang, RowAtom(MaxRow + 2, 1)>>}

DefinedNamesSamples ==
    {None} \cup {[k |-> "names", list |-> <<a, b>>] : a \in NameTextSamples, b \in NameTextSamples}

Workbook(sheets, dn) == Xml([sheets |-> sheets, definedNames |-> dn])

Table(ref, tcols) == Xml([ref |-> ref, tableColumns |-> tcols, autoFilter |-> None])
TableWithFilter(ref, tcols) == Xml([ref |-> ref, tableColumns |-> tcols, autoFilter |-> ref])
Cols(n) == [k |-> "cols", list |-> [i \in 1..n |-> i]]

TableRefSamples ==
    {RangeRef(_col_letter(a), 1, _col_letter(b), 3) : a \in 1..2, b \in 2..(MaxCol + 1)}
    \cup {CellRef(<<"B">>, 1), OtherRef("bad"), EmptyRef}

TableSamples ==
    {Bad("table")}
    \cup {Table(r, c) : r \in TableRefSamples, c \in {None} \cup {Cols(n) : n \in 1..(MaxCol + 1)}}

Table2Samples ==
    {Bad("table")} \cup {TableWithFilter(RangeRef(<<"A">>, 1, <<"B">>, 3), Cols(n)) : n \in {1, MaxCol}}

SheetRelsSamples ==
    {None,
     Bad("rels"),
     Xml(RelsDoc(<<Rel("rId1", "table", <<"..", "tables", "table1.xml">>)>>)),
     Xml(RelsDoc(<<Rel("rId1", "table", <<"..", "tables", "table1.xml">>),
                   Rel("rId2", "drawing", <<"..", "drawings", "drawing1.xml">>),
                   Rel("rId3", "table", <<"..", "tables", "table2.xml">>)>>)),
     Xml(RelsDoc(<<Rel("rId1", "table", <<"..", "tables", "table3.xml">>),
                   Rel("rId2", "table", <<"..", "tables", "table1.xml">>)>>))}

(* the archive: the fixed members, then the optional ones *)
Archive(ct, wb, wbrels, sheet, srels, t1, t2, calc) ==
    LET names == {CONTENT_TYPES, WORKBOOK_XML, WORKBOOK_RELS, SHEET1, SHEET2, TABLE1, TABLE2, VBA_BIN}
                 \cup (IF srels = None THEN {} ELSE {SHEET1_RELS})
                 \cup (IF calc THEN {CALCCHAIN_XML} ELSE {})
    IN [n \in names |->
          CASE n = CONTENT_TYPES -> ct
            [] n = WORKBOOK_XML -> wb
            [] n = WORKBOOK_RELS -> wbrels
            [] n = SHEET1 -> sheet
            [] n = SHEET2 -> Xml(PlainSheet)
            [] n = SHEET1_RELS -> srels
            [] n = TABLE1 -> t1
            [] n = TABLE2 -> t2
            [] n = VBA_BIN -> Bad("vbaProject")
            [] n = CALCCHAIN_XML -> Xml([root |-> "calcChain"])]

PlainWorkbook == Workbook(<<[name |-> Template, rid |-> "rId1"]>>, None)
PlainWbRels == Xml(RelsDoc(<<Rel("rId1", "worksheet", <<"worksheets", "sheet1.xml">>)>>))
PlainContentTypes == Xml([children |-> <<Default("xml"), Override(CALCCHAIN_PARTNAME)>>])
PlainTable == Table(RangeRef(<<"A">>, 1, <<"B">>, 3), Cols(2))
PlainSheetRels == Xml(RelsDoc(<<Rel("rId1", "table", <<"..", "tables", "table1.xml">>)>>))

(* a reference reaching beyond every bound the patch can compute *)
FarRange == RangeRef(<<"A">>, 1, _col_letter(WideCol + 1), FarRow)

(* a sheet and a workbook whose references all reach beyond the bounds *)
FarSheet == [PlainSheet EXCEPT !.autoFilter = FarRange, !.cf = <<<<FarRange>>>>,
                               !.dv = [k |-> "dvs", list |-> <<<<FarRange>>>>],
                               !.merges = [k |-> "merges", list |-> <<FarRange>>]]
FarWorkbook ==
    Workbook(<<[name |-> Template, rid |-> "rId1"]>>,
             [k |-> "names",
              list |-> <<<<Txt(Template), Bang,
                           A1Atom(<<"A">>, 1, _col_letter(WideCol + 1), FarRow)>>>>])

FarA1 == A1Atom(<<"A">>, 1, _col_letter(WideCol + 1), FarRow)

(* formula texts with several areas, or with text before the sheet name:   *)
(* Template!R,Template!R   SUM(Template!R)   'Template'!R,'Template'!C      *)
(* Other!R,Template!R      Template!R,Other!R                               *)
MultiAreaSamples ==
    {<<Txt(Template), Bang, FarA1, Txt(<<",">> \o Template), Bang, FarA1>>,
     <<Txt(<<"S", "U", "M", "(">> \o Template), Bang, FarA1, Txt(<<")">>)>>,
     <<Quote, Txt(Template), Quote, Bang, FarA1, Txt(<<",">>),
       Quote, Txt(Template), Quote, Bang, ColAtom(<<"A">>, _col_letter(WideCol + 1))>>,
     <<Txt(Other), Bang, FarA1, Txt(<<",">> \o Template), Bang, RowAtom(1, FarRow)>>,
     <<Txt(Template), Bang, FarA1, Txt(<<",">> \o Other), Bang, FarA1>>,
     <<Txt(<<"\n", "\t">> \o Template), Bang, FarA1>>}

Inputs(z, h, st, w, n) ==
    [z |-> z, sheet_name |-> Template, header_row |-> h, start_row |-> st,
     used_cols |-> w, block_2d |-> FullBlock(n, w)]

(***************************************************************************)
(* Spec: fast_patch_template, one step per phase of the function.          *)
(***************************************************************************)
Init ==
    /\ pc = "start"
    /\ \/ \E ct \in ContentTypesSamples, ws \in WbSheetsSamples, wr \in WbRelsSamples,
             sh \in {Xml(PlainSheet), Bad("sheet")}, calc \in BOOLEAN :
              inp = Inputs(Archive(ct, Workbook(ws, None), Xml(RelsDoc(wr)), sh,
                                   PlainSheetRels, PlainTable, PlainTable, calc),
                           2, 4, MaxCol, 1)
       \/ \E sr \in SheetRelsSamples, t1 \in TableSamples, t2 \in Table2Samples,
             w \in 1..(MaxCol + 1), n \in {0, MaxBlockRows} :
              inp = Inputs(Archive(PlainContentTypes, PlainWorkbook, PlainWbRels, Xml(PlainSheet),
                                   sr, t1, t2, TRUE),
                           2, 4, w, n)
       \/ \E dn \in DefinedNamesSamples, wbok \in BOOLEAN, hs \in HeaderStartRows,
             w \in LastCols, n \in 0..MaxBlockRows :
              inp = Inputs(Archive(PlainContentTypes,
                                   IF wbok THEN Workbook(<<[name |-> Template, rid |-> "rId1"]>>, dn)
                                   ELSE Bad("workbook"),
                                   PlainWbRels, Xml(PlainSheet), PlainSheetRels, PlainTable,
                                   PlainTable, FALSE),
                           hs[1], hs[2], w, n)
       \/ \E t \in MultiAreaSamples, hs \in HeaderStartRows, w \in LastCols, n \in 0..MaxBlockRows :
              inp = Inputs(Archive(PlainContentTypes,
                                   Workbook(<<[name |-> Template, rid |-> "rId1"]>>,
                                            [k |-> "names", list |-> <<t>>]),
                                   PlainWbRels, Xml(PlainSheet), PlainSheetRels, PlainTable,
                                   PlainTable, FALSE),
                           hs[1], hs[2], w, n)
       \/ \E hs \in HeaderStartRows, w \in LastCols, n \in 0..MaxBlockRows :
              inp = Inputs(Archive(PlainContentTypes, FarWorkbook, PlainWbRels, Xml(FarSheet),
                                   PlainSheetRels, PlainTable, PlainTable, FALSE),
                           hs[1], hs[2], w, n)
    /\ res = None
    /\ sheet_path = None /\ table_paths = None /\ table_infos = None
    /\ final_cols = 0 /\ new_sheet_xml = None /\ last_row = 0
    /\ patched_tables = None /\ new_workbook_xml = None /\ out = None

(* lines 327-331 *)
Locate ==
    /\ pc = "start"
    /\ LET f == _find_sheet_part_path(inp.z, inp.sheet_name)
       IN /\ f.ok
          /\ LET g == _get_table_paths_for_sheet(inp.z, f.path)
             IN /\ g.ok
                /\ sheet_path' = f.path
                /\ table_paths' = g.paths
    /\ pc' = "located"
    /\ UNCHANGED <<inp, res, table_infos, final_cols, new_sheet_xml, last_row,
                   patched_tables, new_workbook_xml, out>>

LocateRaises ==
    /\ pc = "start"
    /\ LET f == _find_sheet_part_path(inp.z, inp.sheet_name)
       IN \/ ~f.ok
          \/ f.ok /\ ~_get_table_paths_for_sheet(inp.z, f.path).ok
    /\ pc' = "error"
    /\ UNCHANGED <<inp, res, patch_locals>>

(* lines 333-342 *)
ReadTables ==
    /\ pc = "located"
    /\ LET q == ReadTablesLoop(inp.z, table_paths, 1, <<>>, Max(1, inp.used_cols))
       IN /\ table_infos' = q[1]
          /\ final_cols' = q[2]
    /\ pc' = "widths"
    /\ UNCHANGED <<inp, res, sheet_path, table_paths, new_sheet_xml, last_row,
                   patched_tables, new_workbook_xml, out>>

(* lines 344-346 *)
PatchSheet ==
    /\ pc = "widths"
    /\ Parses(inp.z, sheet_path)
    /\ new_sheet_xml' = ET_tostring(_patch_sheet_xml(inp.z[sheet_path].doc, inp.header_row,
                                                    inp.start_row, final_cols, inp.block_2d))
    /\ pc' = "sheet_done"
    /\ UNCHANGED <<inp, res, sheet_path, table_paths, table_infos, final_cols, last_row,
                   patched_tables, new_workbook_xml, out>>

PatchSheetRaises ==
    /\ pc = "widths"
    /\ ~Parses(inp.z, sheet_path)
    /\ pc' = "error"
    /\ UNCHANGED <<inp, res, patch_locals>>

(* lines 348-355 *)
PatchTables ==
    /\ pc = "sheet_done"
    /\ last_row' = LastRowOf(inp.header_row, inp.start_row, inp.block_2d)
    /\ patched_tables' = PatchTablesLoop(inp.z, table_infos, 1, inp.header_row,
                                         LastRowOf(inp.header_row, inp.start_row, inp.block_2d), <<>>)
    /\ pc' = "tables_done"
    /\ UNCHANGED <<inp, res, sheet_path, table_paths, table_infos, final_cols, new_sheet_xml,
                   new_workbook_xml, out>>

(* lines 357-359 *)
ClampDefinedNames ==
    /\ pc = "tables_done"
    /\ new_workbook_xml' = _clamp_defined_names(inp.z[WORKBOOK_XML], inp.sheet_name, final_cols, last_row)
    /\ pc' = "names_done"
    /\ UNCHANGED <<inp, res, sheet_path, table_paths, table_infos, final_cols, new_sheet_xml,
                   last_row, patched_tables, out>>

(* lines 361-379 *)
RepackArchive ==
    /\ pc = "names_done"
    /\ out' = Repack(inp.z, sheet_path, new_sheet_xml, patched_tables, new_workbook_xml)
    /\ pc' = "done"
    /\ UNCHANGED <<inp, res, sheet_path, table_paths, table_infos, final_cols, new_sheet_xml,
                   last_row, patched_tables, new_workbook_xml>>

Next ==
    \/ Locate
    \/ LocateRaises
    \/ ReadTables
    \/ PatchSheet
    \/ PatchSheetRaises
    \/ PatchTables
    \/ ClampDefinedNames
    \/ RepackArchive

Spec == Init /\ [][Next]_vars

(* the rectangle [c1n..c2n] x [r1..r2] lies inside the range dim *)
Covers(dim, c1n, r1, c2n, r2) ==
    /\ dim.k = "range"
    /\ _col_number(dim.c1) <= c1n /\ c2n <= _col_number(dim.c2)
    /\ dim.r1 <= r1 /\ r2 <= dim.r2

WellFormedDim(d) ==
    \/ d.k = "cell"
    \/ d.k = "range" /\ _col_number(d.c1) <= _col_number(d.c2) /\ d.r1 <= d.r2

CoversRef(dim, d) ==
    IF d.k = "cell" THEN Covers(dim, _col_number(d.c1), d.r1, _col_number(d.c1), d.r1)
    ELSE Covers(dim, _col_number(d.c1), d.r1, _col_number(d.c2), d.r2)

(* C5: after _patch_sheet_xml the dimension contains every cell of the      *)
(* original well-formed dimension (two-corner or single-cell) and every     *)
(* cell of columns 1..last_col, rows header_row..last_row.                  *)
CexC5_DimensionNeverShrinks ==
    (pc = "sheet_patched" /\ WellFormedDim(inp.sheet.dimension)) =>
        /\ CoversRef(res.dimension, inp.sheet.dimension)
        /\ Covers(res.dimension, 1, inp.header_row, Max(1, inp.used_cols_final),
                  Max(inp.header_row, inp.start_row + Len(inp.block_2d) - 1))

(* a block row holds, within the write width, a value that is non-empty     *)
(* once the invalid characters are removed                                  *)
RowHasValue(row_vals, w) ==
    \E j \in 1..Min(w, Len(row_vals)) : \E k \in 1..Len(row_vals[j]) : row_vals[j][k] \notin _INVALID_XML_CHARS

OrigRowsOf(rows) == SelectSeq(rows, LAMBDA row : row.tag = "orig")
NewRowsOf(rows) == SelectSeq(rows, LAMBDA row : row.tag = "new")
RowNumbers_(rows) == [i \in 1..Len(rows) |-> rows[i].r]

RECURSIVE ExpectedNumbers(_, _, _, _)
ExpectedNumbers(block_2d, i, start_row, w) ==
    IF i > Len(block_2d) THEN <<>>
    ELSE (IF RowHasValue(block_2d[i], w) THEN <<start_row + i - 1>> ELSE <<>>)
         \o ExpectedNumbers(block_2d, i + 1, start_row, w)

OrigRowsReplaced ==
    /\ \A i \in 1..Len(res.rows) :
          res.rows[i].tag = "orig" => ~(res.rows[i].rok /\ res.rows[i].r >= inp.start_row)
    /\ OrigRowsOf(res.rows) =
          SelectSeq(inp.sheet.rows, LAMBDA row : ~row.rok \/ row.r < inp.start_row)
    /\ \A i, j \in 1..Len(res.rows) :
          (res.rows[i].tag = "new" /\ res.rows[j].tag = "orig") => j < i

(* C10 as stated: one new row element for every block row i, numbered       *)
(* first_data_row + i, in increasing order, whether or not the row holds a  *)
(* value; original rows at or after the first data row removed, rows below  *)
(* kept.                                                                    *)
CexC10_RowForEveryBlockRow ==
    pc = "sheet_patched" =>
        /\ OrigRowsReplaced
        /\ RowNumbers_(NewRowsOf(res.rows)) =
              [i \in 1..Len(inp.block_2d) |-> inp.start_row + i - 1]

(* C10 amended: the new row elements are those of the block rows that hold  *)
(* at least one value that is non-empty after sanitising, within the write  *)
(* width; numbered first_data_row + i, in increasing order of i; original   *)
(* rows numbered at or after the first data row are removed and the others  *)
(* are kept in order, before the new rows.                                  *)
ThmC10_RowForEveryNonEmptyBlockRow ==
    pc = "sheet_patched" =>
        /\ OrigRowsReplaced
        /\ RowNumbers_(NewRowsOf(res.rows)) =
              ExpectedNumbers(inp.block_2d, 1, inp.start_row, inp.used_cols_final)

(* an original row at/after the start row and one below it, a block whose   *)
(* first row is empty and whose second row holds a value                    *)
WitC10_EmptyAndFilledRows ==
    /\ pc = "sheet_patched"
    /\ \E i \in 1..Len(inp.sheet.rows) : inp.sheet.rows[i].rok /\ inp.sheet.rows[i].r >= inp.start_row
    /\ \E i \in 1..Len(inp.sheet.rows) : inp.sheet.rows[i].rok /\ inp.sheet.rows[i].r < inp.start_row
    /\ Len(inp.block_2d) = 2
    /\ ~RowHasValue(inp.block_2d[1], inp.used_cols_final)
    /\ RowHasValue(inp.block_2d[2], inp.used_cols_final)
    /\ Len(NewRowsOf(res.rows)) = 1

(***************************************************************************)
(* norm(): header normalisation, on character sequences.  EN_DASH, EM_DASH *)
(* and MINUS stand for the characters U+2013, U+2014 and U+2212.           *)
(***************************************************************************)
EN_DASH == "U+2013"
EM_DASH == "U+2014"
MINUS == "U+2212"
DIGITS == {"0", "1", "2", "3", "4", "5", "6", "7", "8", "9"}
SEPARATORS == {".", "_", "/", "\\", "-"}

(* the whole of s matches \s*-\s*en\s*[-_ ]\s*us\s*, read from state st:     *)
(* 0 before "-", 1 before "e", 2 before "n", 3 before [-_ ], 4 before "u",  *)
(* 5 before "s", 6 after "s"                                                *)
RECURSIVE LocaleSuffixFrom(_, _)
LocaleSuffixFrom(s, st) ==
    IF s = <<>> THEN st = 6
    ELSE LET ch == Head(s)
             rest == Tail(s)
         IN CASE st = 0 -> \/ IsSpace(ch) /\ LocaleSuffixFrom(rest, 0)
                           \/ ch = "-" /\ LocaleSuffixFrom(rest, 1)
              [] st = 1 -> \/ IsSpace(ch) /\ LocaleSuffixFrom(rest, 1)
                           \/ ch = "e" /\ LocaleSuffixFrom(rest, 2)
              [] st = 2 -> ch = "n" /\ LocaleSuffixFrom(rest, 3)
              [] st = 3 -> \/ IsSpace(ch) /\ LocaleSuffixFrom(rest, 3)
                           \/ ch \in {"-", "_", " "} /\ LocaleSuffixFrom(rest, 4)
              [] st = 4 -> \/ IsSpace(ch) /\ LocaleSuffixFrom(rest, 4)
                           \/ ch = "u" /\ LocaleSuffixFrom(rest, 5)
              [] st = 5 -> ch = "s" /\ LocaleSuffixFrom(rest, 6)
              [] st = 6 -> IsSpace(ch) /\ LocaleSuffixFrom(rest, 6)

(* re.sub(r"\s*-\s*en\s*[-_ ]\s*us\s*$", "", x): the leftmost match is cut *)
StripLocaleSuffix(x) ==
    LET starts == {i \in 1..Len(x) : LocaleSuffixFrom(SubSeq(x, i, Len(x)), 0)}
    IN IF starts = {} THEN x
       ELSE SubSeq(x, 1, (CHOOSE i \in starts : \A j \in starts : i <= j) - 1)

(* the character classes of the three run patterns of norm *)
InClass(cls, ch) ==
    CASE cls = "[._/\\-]" -> ch \in SEPARATORS
      [] cls = "[^0-9a-z\\s]" -> ~(IsLower(ch) \/ ch \in DIGITS \/ IsSpace(ch))
      [] cls = "\\s" -> IsSpace(ch)

(* re.sub(cls + "+", " ", x): every maximal run of characters of the class *)
(* becomes one space                                                        *)
RECURSIVE CollapseRuns(_, _, _)
CollapseRuns(x, cls, inRun) ==
    IF x = <<>> THEN <<>>
    ELSE IF InClass(cls, Head(x))
         THEN (IF inRun THEN <<>> ELSE <<" ">>) \o CollapseRuns(Tail(x), cls, TRUE)
         ELSE <<Head(x)>> \o CollapseRuns(Tail(x), cls, FALSE)

norm(s) ==
    LET x1 == Lower(Strip(s))
        x2 == StripLocaleSuffix(x1)
        x3 == [i \in 1..Len(x2) |-> IF x2[i] \in {EN_DASH, EM_DASH, MINUS} THEN "-" ELSE x2[i]]
        x4 == CollapseRuns(x3, "[._/\\-]", FALSE)
        x5 == CollapseRuns(x4, "[^0-9a-z\\s]", FALSE)
    IN Strip(CollapseRuns(x5, "\\s", FALSE))

(***************************************************************************)
(* The column resolution of the main script, for one template column.      *)
(* mapping_raw is the parsed mapping JSON, a sequence of [key, v] entries   *)
(* in document order; on_headers are the onboarding headers; a source       *)
(* column is named by its index in on_headers.                             *)
(***************************************************************************)
KEY_PRODUCT_FEATURES == <<"K", "e", "y", " ", "P", "r", "o", "d", "u", "c", "t", " ", "F", "e", "a", "t", "u", "r", "e", "s">>
LISTING_ACTION == <<"L", "i", "s", "t", "i", "n", "g", " ", "A", "c", "t", "i", "o", "n", " ", "(", "L", "i", "s", "t", " ", "o", "r", " ", "U", "n", "l", "i", "s", "t", ")">>

(* mapping_aliases.get(key): the alias list of the last entry whose         *)
(* normalised key is key; <<>> when there is none                           *)
RECURSIVE MappingAliasesLoop(_, _, _, _)
MappingAliasesLoop(mapping_raw, i, key, found) ==
    IF i > Len(mapping_raw) THEN found
    ELSE LET k == mapping_raw[i].key
             v == mapping_raw[i].v
             aliases == IF \E j \in 1..Len(v) : v[j] = k THEN v ELSE Append(v, k)
         IN MappingAliasesLoop(mapping_raw, i + 1, key,
                               IF norm(k) = key THEN <<aliases>> ELSE found)

(* series_by_alias.get(key): the last source column whose normalised header *)
(* is key; 0 when there is none                                             *)
series_by_alias(on_headers, key) ==
    LET hits == {i \in 1..Len(on_headers) : norm(on_headers[i]) = key}
    IN IF hits = {} THEN 0 ELSE CHOOSE i \in hits : \A j \in hits : j <= i

(* the loop over aliases without its break: the last matching alias wins *)
RECURSIVE Mut_AliasLoop_last(_, _, _)
Mut_AliasLoop_last(aliases, on_headers, i) ==
    LET later == IF i >= Len(aliases) THEN [a |-> 0, col |-> 0]
                 ELSE Mut_AliasLoop_last(aliases, on_headers, i + 1)
    IN IF i > Len(aliases) THEN [a |-> 0, col |-> 0]
       ELSE IF later.col # 0 THEN later
       ELSE IF series_by_alias(on_headers, norm(aliases[i])) # 0
            THEN [a |-> i, col |-> series_by_alias(on_headers, norm(aliases[i]))]
            ELSE [a |-> 0, col |-> 0]

(* for a in aliases: ... break *)
RECURSIVE AliasLoop(_, _, _)
AliasLoop(aliases, on_headers, i) ==
    IF i > Len(aliases) THEN [a |-> 0, col |-> 0]
    ELSE LET col == series_by_alias(on_headers, norm(aliases[i]))
         IN IF col # 0 THEN [a |-> i, col |-> col]
            ELSE AliasLoop(aliases, on_headers, i + 1)

ResolveColumn(disp, sec, mapping_raw, on_headers) ==
    LET disp_norm == norm(disp)
        sec_norm == norm(sec)
        effective_header == IF disp_norm = norm(KEY_PRODUCT_FEATURES) /\ sec_norm # <<>>
                            THEN sec ELSE disp
        eff_norm == norm(effective_header)
        got == MappingAliasesLoop(mapping_raw, 1, eff_norm, <<>>)
        aliases == IF got = <<>> THEN <<effective_header>> ELSE got[1]
        hit == AliasLoop(aliases, on_headers, 1)
    IN IF eff_norm = <<>> THEN [kind |-> "skipped", aliases |-> <<>>, alias |-> 0, col |-> 0]
       ELSE IF hit.col # 0 THEN [kind |-> "resolved", aliases |-> aliases, alias |-> hit.a, col |-> hit.col]
       ELSE IF disp_norm = norm(LISTING_ACTION)
            THEN [kind |-> "SENTINEL_LIST", aliases |-> aliases, alias |-> 0, col |-> 0]
       ELSE [kind |-> "unmatched", aliases |-> aliases, alias |-> 0, col |-> 0]

(***************************************************************************)
(* Inputs of the column resolution.                                        *)
(***************************************************************************)
MaxAliases == 2
MaxSources == 2

HeaderPool == {<<"S", "K", "U">>, <<"s", "k", "u">>, <<"S", "_", "K">>,
               <<"B">>, <<"b", " ", "-", " ", "e", "n", "-", "u", "s">>}
AliasPool == {<<"S", "K", "U">>, <<"s", "-", "k">>, <<"B", " ", "-", " ", "E", "N", "_", "U", "S">>}

DispSamples ==
    {<<<<"S", "K", "U">>, <<>>>>, <<<<"S", "k", "u", " ", "-", " ", "e", "n", "-", "U", "S">>, <<>>>>, <<KEY_PRODUCT_FEATURES, <<"B">>>>,
     <<KEY_PRODUCT_FEATURES, <<>>>>, <<LISTING_ACTION, <<>>>>, <<<<" ">>, <<"B">>>>,
     <<<<"S", "K", "U", " ", "-", "\t", "e", "n", "-", "u", "s", "\n">>, <<>>>>}

KeySamples == {<<"S", "K", "U">>, <<"s", ".", "k", ".", "u">>, <<"B">>}

InjectiveSeqs(S, n) ==
    {q \in SeqsUpTo(S, n) : \A i, j \in 1..Len(q) : i # j => q[i] # q[j]}

(***************************************************************************)
(* SpecResolve: the resolution of one template column.                     *)
(***************************************************************************)
InitResolve ==
    /\ pc = "resolve"
    /\ \/ \E d \in DispSamples, k \in KeySamples, hs \in InjectiveSeqs(HeaderPool, MaxSources) :
            \E v \in {<<>>, <<<<"B">>>>} :
               inp = [disp |-> d[1], sec |-> d[2],
                      mapping_raw |-> <<[key |-> k, v |-> v]>>,
                      on_headers |-> hs]
       \/ \E k \in KeySamples, hs \in InjectiveSeqs(HeaderPool, MaxSources) :
            \E v \in SeqsUpTo(AliasPool, MaxAliases) :
               inp = [disp |-> <<"S", "K", "U">>, sec |-> <<>>,
                      mapping_raw |-> <<[key |-> k, v |-> v]>>,
                      on_headers |-> hs]
    /\ res = None
    /\ sheet_path = None /\ table_paths = None /\ table_infos = None
    /\ final_cols = 0 /\ new_sheet_xml = None /\ last_row = 0
    /\ patched_tables = None /\ new_workbook_xml = None /\ out = None

Resolve ==
    /\ pc = "resolve"
    /\ res' = ResolveColumn(inp.disp, inp.sec, inp.mapping_raw, inp.on_headers)
    /\ pc' = "resolved"
    /\ UNCHANGED <<inp, patch_locals>>

NextResolve == Resolve

SpecResolve == InitResolve /\ [][NextResolve]_vars

(***************************************************************************)
(* Properties of fast_patch_template (Spec).                               *)
(***************************************************************************)
Replaced == {sheet_path} \cup DOMAIN patched_tables \cup {WORKBOOK_XML, CONTENT_TYPES}

(* C1: on success the output archive has the input's member names minus     *)
(* xl/calcChain.xml, and every member other than the sheet part, the        *)
(* patched table parts, xl/workbook.xml and [Content_Types].xml carries the *)
(* input's bytes.                                                           *)
ThmC1_UntouchedPartsIdentical ==
    pc = "done" =>
        /\ DOMAIN out = DOMAIN inp.z \ {CALCCHAIN_XML}
        /\ \A n \in DOMAIN out : n \notin Replaced => out[n] = inp.z[n]

(* a run with a calculation chain, one patched table and one attached table *)
(* part that passes through unpatched, next to an XML part never touched    *)
WitC1_PassThrough ==
    /\ pc = "done"
    /\ CALCCHAIN_XML \in DOMAIN inp.z
    /\ DOMAIN patched_tables = {TABLE1}
    /\ Len(table_paths) = 2
    /\ out[TABLE2] = inp.z[TABLE2]
    /\ out[SHEET2].kind = "xml" /\ out[SHEET2].ser = "orig"

(* C2: on success the output has no xl/calcChain.xml member and its         *)
(* content-types document declares no part /xl/calcChain.xml, whether or    *)
(* not the input held a calculation chain.                                  *)
ThmC2_NoCalcChain ==
    pc = "done" =>
        /\ CALCCHAIN_XML \notin DOMAIN out
        /\ out[CONTENT_TYPES].kind = "xml" =>
              \A i \in 1..Len(out[CONTENT_TYPES].doc.children) :
                  out[CONTENT_TYPES].doc.children[i].PartName # CALCCHAIN_PARTNAME

(* the input held the member and declared it twice *)
WitC2_CalcChainDropped ==
    /\ pc = "done"
    /\ CALCCHAIN_XML \in DOMAIN inp.z
    /\ inp.z[CONTENT_TYPES].kind = "xml"
    /\ Cardinality({i \in 1..Len(inp.z[CONTENT_TYPES].doc.children) :
                      inp.z[CONTENT_TYPES].doc.children[i].PartName = CALCCHAIN_PARTNAME}) = 2
    /\ out[CONTENT_TYPES].ser = "et"

DeclaresColumns(tp) ==
    /\ Parses(inp.z, tp)
    /\ inp.z[tp].doc.tableColumns.k = "cols"

ColumnCount(tp) == Len(inp.z[tp].doc.tableColumns.list)

SetMin(S) == CHOOSE m \in S : \A x \in S : m <= x

ColSpan(ref) == _col_number(ref.c2) - _col_number(ref.c1) + 1

(* C3: with one or more attached tables (each declaring tableColumns) the   *)
(* write width is the minimum of the used-column count and the smallest     *)
(* tableColumns count, and every patched table's new ref spans as many      *)
(* columns as the table declares.                                           *)
ThmC3_WidthClampedToNarrowestTable ==
    /\ (pc \in {"widths", "sheet_done", "tables_done", "names_done", "done"}
        /\ table_paths # <<>>
        /\ \A i \in 1..Len(table_paths) : DeclaresColumns(table_paths[i]))
       => /\ final_cols = SetMin({inp.used_cols} \cup
                                 {ColumnCount(table_paths[i]) : i \in 1..Len(table_paths)})
          /\ pc # "widths" =>
               \A i \in 1..Len(new_sheet_xml.doc.rows) :
                   new_sheet_xml.doc.rows[i].tag = "new" =>
                      /\ new_sheet_xml.doc.rows[i].spans[2] = final_cols
                      /\ Len(new_sheet_xml.doc.rows[i].cells) = final_cols
    /\ pc \in {"tables_done", "names_done", "done"}
       => \A tp \in DOMAIN patched_tables :
             DeclaresColumns(tp) =>
                /\ patched_tables[tp].doc.ref.k = "range"
                /\ ColSpan(patched_tables[tp].doc.ref) = ColumnCount(tp)

(* two attached tables of different column counts, both narrower than the   *)
(* used-column count                                                        *)
WitC3_TwoTables ==
    /\ pc = "done"
    /\ Len(table_paths) = 2
    /\ \A i \in 1..2 : DeclaresColumns(table_paths[i])
    /\ ColumnCount(table_paths[1]) > ColumnCount(table_paths[2])
    /\ ColumnCount(table_paths[1]) < inp.used_cols
    /\ final_cols = ColumnCount(table_paths[2])
    /\ DOMAIN patched_tables = {TABLE1, TABLE2}

NoSheetEntry ==
    /\ Parses(inp.z, WORKBOOK_XML)
    /\ \A i \in 1..Len(inp.z[WORKBOOK_XML].doc.sheets) :
          inp.z[WORKBOOK_XML].doc.sheets[i].name # inp.sheet_name

NoRelTarget ==
    /\ Parses(inp.z, WORKBOOK_XML) /\ Parses(inp.z, WORKBOOK_RELS)
    /\ \E i \in 1..Len(inp.z[WORKBOOK_XML].doc.sheets) :
          /\ inp.z[WORKBOOK_XML].doc.sheets[i].name = inp.sheet_name
          /\ \A j \in 1..(i - 1) : inp.z[WORKBOOK_XML].doc.sheets[j].name # inp.sheet_name
          /\ \A r \in 1..Len(inp.z[WORKBOOK_RELS].doc.rels) :
                \/ inp.z[WORKBOOK_RELS].doc.rels[r].Id # inp.z[WORKBOOK_XML].doc.sheets[i].rid
                \/ inp.z[WORKBOOK_RELS].doc.rels[r].Target = <<>>

(* C6: when the sheet name has no entry in the workbook, or its             *)
(* relationship id has no target, the function raises before any output is  *)
(* assembled: no later phase runs and no output exists.                     *)
ThmC6_AbortWithoutOutput ==
    (NoSheetEntry \/ NoRelTarget) =>
        /\ pc \in {"start", "error"}
        /\ out = None /\ new_sheet_xml = None /\ patched_tables = None
        /\ pc = "start" => (ENABLED LocateRaises /\ ~ENABLED Locate)

WitC6_NoTargetAborted ==
    /\ pc = "error"
    /\ NoRelTarget
    /\ ~NoSheetEntry
    /\ out = None

(* the ref attribute is present and is not a two-corner range *)
MalformedTable(tp) ==
    /\ tp \in DOMAIN inp.z
    /\ \/ inp.z[tp].kind # "xml"
       \/ inp.z[tp].kind = "xml" /\ inp.z[tp].doc.ref.k \in {"cell", "other"}

WellFormedWidths ==
    {_read_table_info(inp.z[table_paths[i]].doc).width :
        i \in {j \in 1..Len(table_paths) :
                 Parses(inp.z, table_paths[j]) /\ ~MalformedTable(table_paths[j])}}

(* C7: a malformed attached table part (XML that does not parse, or a ref   *)
(* that is not a two-corner range) does not abort the patch, is emitted as  *)
(* in the input and does not influence the write width.                     *)
CexC7_MalformedTableSkipped ==
    (pc = "done" /\ \E i \in 1..Len(table_paths) : MalformedTable(table_paths[i])) =>
        /\ \A i \in 1..Len(table_paths) :
              MalformedTable(table_paths[i]) =>
                 /\ table_paths[i] \notin DOMAIN patched_tables
                 /\ out[table_paths[i]] = inp.z[table_paths[i]]
        /\ final_cols = SetMin({Max(1, inp.used_cols)} \cup WellFormedWidths)
        /\ out[sheet_path].ser = "et"

TableStart(t) == IF t.ref.k = "range" THEN t.ref.c1 ELSE <<"A">>
TableWidth(t) ==
    IF t.tableColumns.k = "cols" THEN Len(t.tableColumns.list)
    ELSE IF t.ref.k = "range" THEN ColSpan(t.ref) ELSE 1

(* C9: every patched table's new ref is (table_start_column, header_row) to *)
(* (table_start_column + table_width - 1, last_row), its autoFilter ref is  *)
(* that same ref, and its tableColumns are those of the input.              *)
ThmC9_TableRefSynced ==
    pc \in {"tables_done", "names_done", "done"} =>
        \A tp \in DOMAIN patched_tables :
            LET t == inp.z[tp].doc
                new == patched_tables[tp].doc
            IN /\ new.ref.k = "range"
               /\ new.ref.c1 = TableStart(t)
               /\ new.ref.r1 = inp.header_row
               /\ _col_number(new.ref.c2) = _col_number(TableStart(t)) + TableWidth(t) - 1
               /\ new.ref.r2 = last_row
               /\ new.autoFilter = new.ref
               /\ new.tableColumns = t.tableColumns
               /\ pc = "done" => out[tp] = patched_tables[tp]

(* a patched table that starts in column B, is several columns wide and had *)
(* no autoFilter element, with data rows below the header                   *)
WitC9_TableFromB ==
    /\ pc = "done"
    /\ TABLE1 \in DOMAIN patched_tables
    /\ inp.z[TABLE1].doc.ref.k = "range"
    /\ inp.z[TABLE1].doc.ref.c1 = <<"B">>
    /\ inp.z[TABLE1].doc.autoFilter = None
    /\ TableWidth(inp.z[TABLE1].doc) >= 2
    /\ last_row > inp.header_row
    /\ out[TABLE1].doc.ref.r2 = last_row

(***************************************************************************)
(* Properties of the column resolution (SpecResolve).                      *)
(***************************************************************************)
(* the indices of the aliases whose normal form is that of a source header *)
MatchingAliases(aliases, on_headers) ==
    {i \in 1..Len(aliases) :
        \E j \in 1..Len(on_headers) : norm(aliases[i]) = norm(on_headers[j])}

Reorderings(hs) ==
    {q \in [1..Len(hs) -> {hs[i] : i \in 1..Len(hs)}] :
        \A i, j \in 1..Len(hs) : i # j => q[i] # q[j]}

DistinctNormalForms(hs) ==
    \A i, j \in 1..Len(hs) : i # j => norm(hs[i]) # norm(hs[j])

(* C8: when aliases of a template column match source headers, the column  *)
(* resolves to a source column whose header normalises like the matching    *)
(* alias of lowest index; the same alias wins under every reordering of the *)
(* source headers, and it selects the same source header whenever the       *)
(* source headers have pairwise distinct normal forms.                      *)
ThmC8_FirstMatchWins ==
    (pc = "resolved" /\ res.kind # "skipped") =>
        LET M == MatchingAliases(res.aliases, inp.on_headers)
            first == CHOOSE i \in M : \A j \in M : i <= j
        IN IF M = {} THEN res.kind \in {"SENTINEL_LIST", "unmatched"}
           ELSE /\ res.kind = "resolved"
                /\ res.alias = first
                /\ norm(inp.on_headers[res.col]) = norm(res.aliases[first])
                /\ \A hs \in Reorderings(inp.on_headers) :
                     LET r == ResolveColumn(inp.disp, inp.sec, inp.mapping_raw, hs)
                     IN /\ r.kind = "resolved"
                        /\ r.alias = first
                        /\ DistinctNormalForms(inp.on_headers)
                              => hs[r.col] = inp.on_headers[res.col]

(* two aliases match; the first matches only after normalisation a header  *)
(* that comes second in the source, the later alias equals the first source *)
(* header letter for letter                                                 *)
WitC8_LaterAliasMatchesEarlierHeader ==
    /\ pc = "resolved"
    /\ res.kind = "resolved"
    /\ Len(res.aliases) >= 2
    /\ res.aliases[1] = <<"s", "-", "k">>
    /\ res.aliases[2] = <<"S", "K", "U">>
    /\ inp.on_headers = <<<<"S", "K", "U">>, <<"S", "_", "K">>>>
    /\ res.alias = 1
    /\ res.col = 2

(***************************************************************************)
(* Properties of the bounds (Spec).                                        *)
(***************************************************************************)
IsFarInput == inp.z[SHEET1] = Xml(FarSheet) /\ inp.z[WORKBOOK_XML] = FarWorkbook

(* the bounds show in every clamped reference of the far sheet, in every   *)
(* patched table and in the clamped defined name                            *)
BoundsAre(lc, lr) ==
    /\ pc \in {"sheet_done", "tables_done", "names_done", "done"} =>
          LET far == FormatRange(<<"A">>, 1, _col_letter(lc), lr)
              d == new_sheet_xml.doc
          IN /\ d.autoFilter = far
             /\ d.cf = <<<<far>>>>
             /\ d.dv.list = <<<<far>>>>
             /\ d.merges.list = <<far>>
    /\ pc \in {"tables_done", "names_done", "done"} =>
          /\ last_row = lr
          /\ \A tp \in DOMAIN patched_tables : patched_tables[tp].doc.ref.r2 = lr
    /\ pc \in {"names_done", "done"} =>
          new_workbook_xml.doc.definedNames.list =
              <<<<Txt(Template), Bang, A1Atom(<<"A">>, 1, _col_letter(lc), lr)>>>>

(* C11 as stated: last_row = max(header_row, first data row + row_count -  *)
(* 1) and last_col = max(1, write width), a block of zero rows included.    *)
CexC11_BoundsAsStated ==
    IsFarInput =>
        BoundsAre(Max(1, final_cols),
                  Max(inp.header_row, inp.start_row + Len(inp.block_2d) - 1))

(* C11: last_row = max(header_row, first data row + max(0, row_count - 1)) *)
(* and last_col = max(1, write width): a block of zero rows bounds the      *)
(* sheet at the first data row.                                             *)
ThmC11_BoundsWithRowFloor ==
    IsFarInput =>
        BoundsAre(Max(1, final_cols),
                  Max(inp.header_row, inp.start_row + Max(0, Len(inp.block_2d) - 1)))

(* a block of zero rows: the bounds end at the first data row *)
WitC11_ZeroRows ==
    /\ pc = "done"
    /\ IsFarInput
    /\ inp.block_2d = <<>>
    /\ inp.header_row < inp.start_row
    /\ last_row = inp.start_row
    /\ out[TABLE1].doc.ref.r2 = inp.start_row

(***************************************************************************)
(* Properties of the sqref lists and merged cells (SpecSheet).             *)
(***************************************************************************)
SheetLastCol == Max(1, inp.used_cols_final)
SheetLastRow == Max(inp.header_row, inp.start_row + Max(0, Len(inp.block_2d) - 1))

(* the token names cells of [1,lc] x [1,lr] only *)
TokenInBounds(tok, lc, lr) ==
    CASE tok.k = "range" -> /\ 1 <= _col_number(tok.c1) /\ _col_number(tok.c1) <= lc
                            /\ 1 <= _col_number(tok.c2) /\ _col_number(tok.c2) <= lc
                            /\ 1 <= tok.r1 /\ tok.r1 <= lr
                            /\ 1 <= tok.r2 /\ tok.r2 <= lr
      [] tok.k = "cell" -> /\ 1 <= _col_number(tok.c1) /\ _col_number(tok.c1) <= lc
                           /\ 1 <= tok.r1 /\ tok.r1 <= lr
      [] OTHER -> FALSE

Ordered(tok) ==
    tok.k = "range" => (_col_number(tok.c1) <= _col_number(tok.c2) /\ tok.r1 <= tok.r2)

(* same number of tokens, each of the kind of the input token at its place  *)
(* (a token already in bounds, corners in order, is itself), and every      *)
(* token in bounds                                                          *)
SqrefClamped(old, new, lc, lr) ==
    /\ Len(new) = Len(old)
    /\ \A i \in 1..Len(old) :
          /\ new[i].k = old[i].k
          /\ (TokenInBounds(old[i], lc, lr) /\ Ordered(old[i])) => new[i] = old[i]
          /\ TokenInBounds(new[i], lc, lr)

(* C12: after _patch_sheet_xml every token of every conditional-formatting *)
(* sqref and every data-validation sqref, range tokens and single-cell      *)
(* tokens alike, lies inside [1,last_col] x [1,last_row], and the number    *)
(* and order of the tokens of each list is preserved.                       *)
CexC12_SqrefTokensInBounds ==
    pc = "sheet_patched" =>
        /\ Len(res.cf) = Len(inp.sheet.cf)
        /\ \A i \in 1..Len(inp.sheet.cf) :
              SqrefClamped(inp.sheet.cf[i], res.cf[i], SheetLastCol, SheetLastRow)
        /\ inp.sheet.dv.k = "dvs" =>
              /\ Len(res.dv.list) = Len(inp.sheet.dv.list)
              /\ \A i \in 1..Len(inp.sheet.dv.list) :
                    SqrefClamped(inp.sheet.dv.list[i], res.dv.list[i], SheetLastCol, SheetLastRow)

(***************************************************************************)
(* Properties of the defined names (Spec).                                 *)
(***************************************************************************)
IsRefAtom(a) == a.k \in {"a1", "col", "row"}

(* the longest suffix of s made of letters *)
RECURSIVE TrailingName(_)
TrailingName(s) ==
    IF s = <<>> THEN <<>>
    ELSE IF IsUpper(s[Len(s)]) \/ IsLower(s[Len(s)])
         THEN Append(TrailingName(SubSeq(s, 1, Len(s) - 1)), s[Len(s)])
         ELSE <<>>

(* the sheet name qualifying the reference atom text[i]: the quoted name,  *)
(* or the name ending the text before the !; <<>> when there is none        *)
Qualifier(text, i) ==
    IF ~(i >= 3 /\ text[i - 1].k = "bang") THEN <<>>
    ELSE IF text[i - 2].k = "txt" THEN TrailingName(text[i - 2].s)
    ELSE IF i >= 5 /\ text[i - 2].k = "q" /\ text[i - 3].k = "txt" /\ text[i - 4].k = "q"
         THEN text[i - 3].s
    ELSE <<>>

AtomInBounds(a, lc, lr) ==
    CASE a.k = "a1" -> /\ 1 <= _col_number(a.c1) /\ _col_number(a.c1) <= lc
                       /\ 1 <= _col_number(a.c2) /\ _col_number(a.c2) <= lc
                       /\ 1 <= a.r1 /\ a.r1 <= lr
                       /\ 1 <= a.r2 /\ a.r2 <= lr
      [] a.k = "col" -> /\ 1 <= _col_number(a.c1) /\ _col_number(a.c1) <= lc
                        /\ 1 <= _col_number(a.c2) /\ _col_number(a.c2) <= lc
      [] a.k = "row" -> /\ 1 <= a.r1 /\ a.r1 <= lr
                        /\ 1 <= a.r2 /\ a.r2 <= lr

NamesClamped(old, new, sheet_name, lc, lr) ==
    /\ Len(new) = Len(old)
    /\ \A i \in 1..Len(old) :
          IF IsRefAtom(old[i]) /\ Lower(Qualifier(old, i)) = Lower(sheet_name)
          THEN new[i].k = old[i].k /\ AtomInBounds(new[i], lc, lr)
          ELSE new[i] = old[i]

(* C13: after _clamp_defined_names every sheet-qualified absolute          *)
(* reference into the target sheet, in every defined name, has its corners  *)
(* within [1,last_col] x [1,last_row], the second and later references of a *)
(* multi-area formula and references preceded by other text included, and   *)
(* every reference qualified by another sheet name is unchanged.            *)
CexC13_DefinedNamesInBounds ==
    (/\ pc \in {"names_done", "done"}
     /\ Parses(inp.z, WORKBOOK_XML)
     /\ inp.z[WORKBOOK_XML].doc.definedNames.k = "names") =>
        LET old == inp.z[WORKBOOK_XML].doc.definedNames.list
            new == new_workbook_xml.doc.definedNames.list
        IN /\ Len(new) = Len(old)
           /\ \A i \in 1..Len(old) :
                 NamesClamped(old[i], new[i], inp.sheet_name, Max(1, final_cols), last_row)

(* two two-corner ranges share a cell *)
Overlap(a, b) ==
    /\ Max(Min(_col_number(a.c1), _col_number(a.c2)), Min(_col_number(b.c1), _col_number(b.c2)))
         <= Min(Max(_col_number(a.c1), _col_number(a.c2)), Max(_col_number(b.c1), _col_number(b.c2)))
    /\ Max(Min(a.r1, a.r2), Min(b.r1, b.r2)) <= Min(Max(a.r1, a.r2), Max(b.r1, b.r2))

PairwiseDisjoint(list) ==
    /\ \A i \in 1..Len(list) : list[i].k = "range"
    /\ \A i, j \in 1..Len(list) : i # j => ~Overlap(list[i], list[j])

(* C14: when the merged-cell ranges of the input sheet are pairwise        *)
(* non-overlapping, the merged-cell ranges _patch_sheet_xml writes are      *)
(* pairwise non-overlapping too.                                            *)
CexC14_MergesStayDisjoint ==
    (/\ pc = "sheet_patched"
     /\ inp.sheet.merges.k = "merges"
     /\ PairwiseDisjoint(inp.sheet.merges.list)) =>
        PairwiseDisjoint(res.merges.list)

====
